---------------------------- MODULE Spec2Model ----------------------------
(***************************************************************************)
(* JH Piano Tuner (tuner.js): the start button / microphone pipeline, the  *)
(* sensitivity slider, and the per-block audio callback with its RMS gate, *)
(* YIN pitch estimator and note mapper.                                    *)
(*                                                                         *)
(* Numbers.  JavaScript numbers are modelled exactly where the values stay *)
(* small: a rational is a pair <<n, d>> with d > 0 in lowest terms.        *)
(*  - A sample is an integer number of amplitude quanta, 1/SampleDen each. *)
(*  - A Float32Array cell of the YIN buffer is a record: kind "num" holds  *)
(*    v / YinScale (the value rounded to the cell's precision when it is   *)
(*    stored), kind "nan" and kind "inf" are the IEEE specials.            *)
(*  - A frequency is [num, den, cents]: (num/den) * 2^(cents/1200) Hz.     *)
(*    yinPitch produces frequencies with cents = 0; the note mapper is     *)
(*    also exercised on the equal-tempered grid 440 * 2^(c/1200).  den = 0 *)
(*    marks the non-finite results NaN and Infinity.                       *)
(*  - A logarithm 1200*log2(x) is a pair <<k, exact>>: the value is k when *)
(*    exact, and lies strictly between k and k+1 otherwise.                *)
(* Math.log, Math.pow and Math.sqrt are the real functions: the rounding   *)
(* of double arithmetic (about 1e-12 cents in getNoteInfo) is not          *)
(* modelled, the IEEE specials NaN and Infinity are.                       *)
(***************************************************************************)
EXTENDS Integers, Sequences, FiniteSets, TLC

(***************************************************************************)
(* Bounds of the model.                                                    *)
(***************************************************************************)
\* Exhaustive blocks: every block of at most this many samples over Levels.
MaxShortLen == 7
\* Tone blocks: triangle waves of every period 2..MaxPeriod and every phase.
MaxPeriod == 16
\* Tone amplitudes 0..MaxToneAmp quanta (0 is the silent block).
MaxToneAmp == 4
\* Length of a tone block (the scaled-down bufferSize).
ToneLen == 36
\* Fractional resolution of a Float32Array cell.
YinScale == 256
\* startTuner invocations that may be in flight or finished.
MaxCalls == 2

\* Sample values of the exhaustive blocks, in quanta.
Levels == {-1, 0, 1}
\* One amplitude quantum is 1/SampleDen of full scale.
SampleDen == 250

(***************************************************************************)
(* Integer and rational helpers.                                           *)
(***************************************************************************)
Abs(x) == IF x < 0 THEN -x ELSE x

RECURSIVE GCD(_, _)
GCD(a, b) == IF b = 0 THEN a ELSE GCD(b, a % b)

\* The rational n/d (d # 0) in lowest terms with a positive denominator.
Rat(n, d) ==
    LET g == GCD(Abs(n), Abs(d))
        s == IF d < 0 THEN -1 ELSE 1
    IN  <<s * (n \div g), s * (d \div g)>>

RatLt(a, b) == a[1] * b[2] < b[1] * a[2]
RatLeq(a, b) == a[1] * b[2] <= b[1] * a[2]

\* Number.prototype.toFixed(digits) of a non-negative rational, as the
\* integer count of 10^-digits units, rounding half up.
RECURSIVE Pow10(_)
Pow10(k) == IF k = 0 THEN 1 ELSE 10 * Pow10(k - 1)

RatToFixed(r, digits) ==
    LET whole == r[1] \div r[2]
        rest  == r[1] % r[2]
    IN  whole * Pow10(digits) + (2 * rest * Pow10(digits) + r[2]) \div (2 * r[2])

(***************************************************************************)
(* Sensitivity slider (tuner.js 61-101).                                   *)
(***************************************************************************)
\* Number(sensitivitySlider.value) || 70
SliderToSensitivity(value) == IF value = 0 THEN 70 ELSE value

\* The mapping turned round: minThresh + (s/100) * (maxThresh - minThresh).
RmsThresholdRising(s) ==
    LET minThresh == <<1, 2000>>
        maxThresh == <<1, 100>>
        span == Rat(maxThresh[1] * minThresh[2] - minThresh[1] * maxThresh[2],
                    maxThresh[2] * minThresh[2])
    IN  Rat(minThresh[1] * 100 * span[2] + s * span[1] * minThresh[2],
            minThresh[2] * 100 * span[2])

\* getRmsThreshold for a sensitivity value s: with minThresh = 0.0005 =
\* 1/2000 and maxThresh = 0.01 = 1/100,
\*   maxThresh - (s/100) * (maxThresh - minThresh) = (2000 - 19*s) / 200000.
RmsThresholdOf(s) ==
    LET minThresh == <<1, 2000>>
        maxThresh == <<1, 100>>
        span == Rat(maxThresh[1] * minThresh[2] - minThresh[1] * maxThresh[2],
                    maxThresh[2] * minThresh[2])
    IN  Rat(maxThresh[1] * 100 * span[2] - s * span[1] * maxThresh[2],
            maxThresh[2] * 100 * span[2])

\* updateSensitivityLabel
SensitivityLabelOf(s) ==
    IF s >= 80 THEN "High" ELSE IF s <= 30 THEN "Low" ELSE "Medium"

(***************************************************************************)
(* computeRMS (tuner.js 258-265).  The result is Math.sqrt(sum/length):    *)
(* kind "nan" for 0/0, else kind "num" with the radicand sq (in quanta^2)  *)
(* as a rational; the square root itself is taken where it is compared or  *)
(* shown.                                                                  *)
(***************************************************************************)
RECURSIVE SumSquares(_, _)
SumSquares(buf, i) ==
    IF i > Len(buf) THEN 0 ELSE buf[i] * buf[i] + SumSquares(buf, i + 1)

computeRMS(buf) ==
    LET sum == SumSquares(buf, 1)
    IN  IF Len(buf) = 0
        THEN [kind |-> "nan", sq |-> <<0, 1>>]          \* 0 / 0
        ELSE [kind |-> "num", sq |-> Rat(sum, Len(buf))]

\* rms > threshold, threshold a positive rational of full scale.  A NaN
\* compares false.  sqrt(n/d)/SampleDen > a/b  <=>  n*b'^2 > a'^2*d with
\* a'/b' = SampleDen*a/b.
RmsGreater(rms, thr) ==
    LET t == Rat(thr[1] * SampleDen, thr[2])
    IN  /\ rms.kind = "num"
        /\ rms.sq[1] * t[2] * t[2] > t[1] * t[1] * rms.sq[2]

\* rms < threshold
RmsLess(rms, thr) ==
    LET t == Rat(thr[1] * SampleDen, thr[2])
    IN  /\ rms.kind = "num"
        /\ rms.sq[1] * t[2] * t[2] < t[1] * t[1] * rms.sq[2]

\* rms.toFixed(3): "NaN", or the count of thousandths nearest to the root.
RmsToFixed3(rms) ==
    IF rms.kind = "nan" THEN [nan |-> TRUE, milli |-> 0]
    ELSE LET k == Rat(1000, SampleDen)
             \* (1000 * rms)^2 = n/d
             n == rms.sq[1] * k[1] * k[1]
             d == rms.sq[2] * k[2] * k[2]
             m == CHOOSE m \in 0..1000 :
                    /\ (2 * m - 1) * (2 * m - 1) * d <= 4 * n \/ m = 0
                    /\ 4 * n < (2 * m + 1) * (2 * m + 1) * d
         IN  [nan |-> FALSE, milli |-> m]

(***************************************************************************)
(* yinPitch (tuner.js 271-327).  Blocks are sequences (index 1 is the      *)
(* code's index 0); the YIN buffer is a function on 0..tauMax-1.           *)
(***************************************************************************)
Num(v) == [kind |-> "num", v |-> v]
NaN == [kind |-> "nan", v |-> 0]
Inf == [kind |-> "inf", v |-> 0]

\* a < b on buffer cells: false when either is NaN.
CellLt(a, b) ==
    CASE a.kind = "nan" \/ b.kind = "nan" -> FALSE
      [] a.kind = "inf" -> FALSE
      [] b.kind = "inf" -> TRUE
      [] OTHER -> a.v < b.v

\* yinBuffer[tau] < threshold, threshold = 0.15
BelowThreshold(a) == a.kind = "num" /\ a.v * 100 < 15 * YinScale

TauMax(buffer) == Len(buffer) \div 2

\* Step 1, the inner loop: sum over i in [0, tauMax) of
\* (buffer[i] - buffer[i + tau])^2.
RECURSIVE DifferenceSum(_, _, _, _)
DifferenceSum(buffer, tau, tauMax, i) ==
    IF i >= tauMax THEN 0
    ELSE LET delta == buffer[i + 1] - buffer[i + tau + 1]
         IN  delta * delta + DifferenceSum(buffer, tau, tauMax, i + 1)

\* Step 1: the raw differences, cells 1..tauMax-1 (cell 0 is still 0).
Difference(buffer) ==
    LET tauMax == TauMax(buffer)
    IN  [tau \in 0..(tauMax - 1) |->
            IF tau = 0 THEN 0 ELSE DifferenceSum(buffer, tau, tauMax, 0)]

\* runningSum after the loop of step 2 has handled lags 1..tau.
RECURSIVE RunningSum(_, _)
RunningSum(raw, tau) ==
    IF tau = 0 THEN 0 ELSE raw[tau] + RunningSum(raw, tau - 1)

\* yinBuffer[tau] *= tau / runningSum, stored back into the Float32 cell:
\* x / 0 is Infinity, 0 * Infinity is NaN, a finite product is rounded to
\* the cell's precision.
Normalise(d, tau, runningSum) ==
    IF runningSum = 0
    THEN IF d = 0 THEN NaN ELSE Inf
    ELSE Num((2 * d * tau * YinScale + runningSum) \div (2 * runningSum))

\* Step 2: the cumulative mean normalized difference; yinBuffer[0] = 1.
YinBuffer(buffer) ==
    LET raw == Difference(buffer)
    IN  [tau \in DOMAIN raw |->
            IF tau = 0 THEN Num(YinScale)
            ELSE Normalise(raw[tau], tau, RunningSum(raw, tau))]

\* Step 3 without its inner while: the first candidate is kept.
FirstCandidate(yinBuffer, tau, tauMax) == tau

\* Step 3, the inner while: advance while the next cell is strictly smaller.
RECURSIVE Descend(_, _, _)
Descend(yinBuffer, tau, tauMax) ==
    IF tau + 1 < tauMax /\ CellLt(yinBuffer[tau + 1], yinBuffer[tau])
    THEN Descend(yinBuffer, tau + 1, tauMax)
    ELSE tau

\* Step 3, the for loop from tau on: the lag chosen, or -1.
RECURSIVE ThresholdSearch(_, _, _)
ThresholdSearch(yinBuffer, tau, tauMax) ==
    IF tau >= tauMax THEN -1
    ELSE IF BelowThreshold(yinBuffer[tau])
         THEN Descend(yinBuffer, tau, tauMax)
         ELSE ThresholdSearch(yinBuffer, tau + 1, tauMax)

TauEstimate(yinBuffer, tauMax) == ThresholdSearch(yinBuffer, 2, tauMax)

\* A frequency of p/q Hz, the value -1, and the non-finite values (den = 0).
Hz(p, q) == [num |-> Rat(p, q)[1], den |-> Rat(p, q)[2], cents |-> 0]
NoPitch == Hz(-1, 1)
NaNFreq == [num |-> 0, den |-> 0, cents |-> 0]
InfFreq == [num |-> 1, den |-> 0, cents |-> 0]

\* Number.isFinite
IsFinite(freq) == freq.den # 0

\* yinBuffer[i]; a read outside the typed array is undefined, NaN in
\* arithmetic.
Cell(yinBuffer, i) == IF i \in DOMAIN yinBuffer THEN yinBuffer[i] ELSE NaN

\* Steps 4 and 5 up to the guard: parabolic interpolation and the division
\* sampleRate / betterTau, in IEEE arithmetic.  A NaN operand gives NaN (an
\* infinite one NaN or a zero, rejected alike); numer / 0 is NaN or an
\* infinity, and sampleRate over an infinity is a zero; sampleRate / 0 is
\* NaN or an infinity.
RawFrequency(yinBuffer, tauEstimate, tauMax, sampleRate) ==
    LET x0 == IF tauEstimate < 1 THEN tauEstimate ELSE tauEstimate - 1
        x2 == IF tauEstimate + 1 < tauMax THEN tauEstimate + 1 ELSE tauEstimate
        s0 == Cell(yinBuffer, x0)
        s1 == Cell(yinBuffer, tauEstimate)
        s2 == Cell(yinBuffer, x2)
        numer == s2.v - s0.v
        denom == 2 * (2 * s1.v - s2.v - s0.v)
        \* betterTau = tauEstimate + numer / denom
        betterTau == Rat(tauEstimate * denom + numer, denom)
    IN  IF s0.kind # "num" \/ s1.kind # "num" \/ s2.kind # "num" THEN NaNFreq
        ELSE IF denom = 0 THEN (IF numer = 0 THEN NaNFreq ELSE Hz(0, 1))
        ELSE IF betterTau[1] = 0
             THEN (IF sampleRate = 0 THEN NaNFreq ELSE InfFreq)
        ELSE Hz(sampleRate * betterTau[2], betterTau[1])

\* The guard without its test frequency <= 0.
FrequencyGuardFiniteOnly(frequency) ==
    IF ~IsFinite(frequency) THEN NoPitch ELSE frequency

\* if (!Number.isFinite(frequency) || frequency <= 0) return -1
FrequencyGuard(frequency) ==
    IF ~IsFinite(frequency) \/ frequency.num <= 0 THEN NoPitch ELSE frequency

yinPitch(buffer, sampleRate) ==
    LET tauMax == TauMax(buffer)
        yinBuffer == YinBuffer(buffer)
        tauEstimate == TauEstimate(yinBuffer, tauMax)
    IN  IF tauEstimate = -1 THEN NoPitch
        ELSE FrequencyGuard(RawFrequency(yinBuffer, tauEstimate, tauMax, sampleRate))

(***************************************************************************)
(* Math.log(x) / Math.log(2), in cents: 1200*log2(f / 440).                *)
(* LogTable[j+1] = floor(440 * 2^(j/1200) * 2^16) for j in 0..1199.  Entry *)
(* 0 is exact; the others are irrational, so 440 * 2^(j/1200) * 2^16 lies  *)
(* strictly between LogTable[j+1] and LogTable[j+1] + 1.                   *)
(***************************************************************************)
LogTable ==
    <<
       28835840, 28852501, 28869171, 28885852, 28902541, 28919241, 28935950, 28952669,
       28969398, 28986136, 29002884, 29019641, 29036409, 29053186, 29069972, 29086769,
       29103575, 29120390, 29137216, 29154051, 29170896, 29187750, 29204615, 29221489,
       29238373, 29255266, 29272170, 29289083, 29306006, 29322939, 29339881, 29356833,
       29373795, 29390767, 29407749, 29424740, 29441742, 29458753, 29475774, 29492805,
       29509845, 29526896, 29543956, 29561026, 29578106, 29595196, 29612296, 29629406,
       29646525, 29663655, 29680794, 29697943, 29715103, 29732272, 29749451, 29766640,
       29783838, 29801047, 29818266, 29835495, 29852733, 29869982, 29887240, 29904509,
       29921787, 29939076, 29956374, 29973683, 29991001, 30008330, 30025668, 30043017,
       30060375, 30077744, 30095123, 30112511, 30129910, 30147319, 30164737, 30182166,
       30199605, 30217054, 30234513, 30251983, 30269462, 30286951, 30304451, 30321960,
       30339480, 30357010, 30374550, 30392100, 30409660, 30427231, 30444811, 30462402,
       30480003, 30497614, 30515235, 30532866, 30550508, 30568160, 30585822, 30603494,
       30621176, 30638869, 30656571, 30674285, 30692008, 30709741, 30727485, 30745239,
       30763003, 30780778, 30798563, 30816358, 30834163, 30851979, 30869805, 30887641,
       30905488, 30923344, 30941212, 30959089, 30976977, 30994875, 31012784, 31030703,
       31048632, 31066571, 31084521, 31102482, 31120452, 31138433, 31156425, 31174427,
       31192439, 31210462, 31228495, 31246538, 31264592, 31282656, 31300731, 31318816,
       31336912, 31355018, 31373135, 31391262, 31409399, 31427547, 31445706, 31463875,
       31482054, 31500244, 31518445, 31536656, 31554878, 31573110, 31591352, 31609605,
       31627869, 31646143, 31664428, 31682724, 31701030, 31719346, 31737673, 31756011,
       31774359, 31792718, 31811088, 31829468, 31847858, 31866260, 31884672, 31903094,
       31921528, 31939972, 31958426, 31976891, 31995367, 32013854, 32032351, 32050859,
       32069378, 32087907, 32106447, 32124998, 32143559, 32162132, 32180715, 32199308,
       32217913, 32236528, 32255154, 32273790, 32292438, 32311096, 32329765, 32348445,
       32367136, 32385837, 32404549, 32423272, 32442006, 32460751, 32479506, 32498272,
       32517050, 32535838, 32554636, 32573446, 32592267, 32611098, 32629941, 32648794,
       32667658, 32686533, 32705419, 32724316, 32743224, 32762142, 32781072, 32800012,
       32818964, 32837926, 32856900, 32875884, 32894879, 32913886, 32932903, 32951931,
       32970971, 32990021, 33009082, 33028155, 33047238, 33066332, 33085438, 33104554,
       33123681, 33142820, 33161970, 33181130, 33200302, 33219485, 33238679, 33257884,
       33277100, 33296327, 33315565, 33334814, 33354075, 33373347, 33392629, 33411923,
       33431228, 33450544, 33469872, 33489210, 33508560, 33527921, 33547293, 33566676,
       33586071, 33605477, 33624893, 33644322, 33663761, 33683211, 33702673, 33722146,
       33741631, 33761126, 33780633, 33800151, 33819680, 33839221, 33858773, 33878336,
       33897911, 33917497, 33937094, 33956702, 33976322, 33995953, 34015596, 34035250,
       34054915, 34074591, 34094279, 34113979, 34133689, 34153412, 34173145, 34192890,
       34212646, 34232414, 34252193, 34271984, 34291786, 34311599, 34331424, 34351260,
       34371108, 34390967, 34410838, 34430720, 34450614, 34470519, 34490436, 34510364,
       34530304, 34550255, 34570218, 34590192, 34610178, 34630175, 34650184, 34670205,
       34690237, 34710281, 34730336, 34750403, 34770481, 34790571, 34810673, 34830786,
       34850911, 34871047, 34891195, 34911355, 34931527, 34951710, 34971904, 34992111,
       35012329, 35032559, 35052800, 35073053, 35093318, 35113595, 35133883, 35154183,
       35174495, 35194818, 35215153, 35235500, 35255859, 35276229, 35296612, 35317006,
       35337411, 35357829, 35378258, 35398700, 35419153, 35439617, 35460094, 35480583,
       35501083, 35521595, 35542119, 35562655, 35583203, 35603762, 35624334, 35644917,
       35665512, 35686119, 35706739, 35727369, 35748012, 35768667, 35789334, 35810013,
       35830703, 35851406, 35872120, 35892847, 35913586, 35934336, 35955099, 35975873,
       35996659, 36017458, 36038268, 36059091, 36079926, 36100772, 36121631, 36142502,
       36163384, 36184279, 36205186, 36226105, 36247036, 36267979, 36288934, 36309902,
       36330881, 36351873, 36372877, 36393893, 36414921, 36435961, 36457013, 36478077,
       36499154, 36520243, 36541344, 36562457, 36583583, 36604720, 36625870, 36647032,
       36668206, 36689393, 36710592, 36731803, 36753026, 36774261, 36795509, 36816769,
       36838042, 36859326, 36880623, 36901932, 36923254, 36944588, 36965934, 36987292,
       37008663, 37030047, 37051442, 37072850, 37094270, 37115703, 37137148, 37158606,
       37180075, 37201558, 37223052, 37244559, 37266079, 37287611, 37309155, 37330712,
       37352281, 37373863, 37395457, 37417064, 37438683, 37460315, 37481959, 37503616,
       37525285, 37546967, 37568661, 37590368, 37612087, 37633819, 37655563, 37677320,
       37699090, 37720872, 37742667, 37764474, 37786294, 37808127, 37829972, 37851829,
       37873700, 37895583, 37917479, 37939387, 37961308, 37983241, 38005188, 38027147,
       38049118, 38071103, 38093100, 38115110, 38137132, 38159167, 38181215, 38203276,
       38225350, 38247436, 38269535, 38291647, 38313771, 38335908, 38358058, 38380221,
       38402397, 38424586, 38446787, 38469001, 38491228, 38513468, 38535720, 38557986,
       38580264, 38602556, 38624860, 38647177, 38669507, 38691850, 38714205, 38736574,
       38758956, 38781350, 38803758, 38826178, 38848611, 38871058, 38893517, 38915989,
       38938474, 38960973, 38983484, 39006008, 39028545, 39051096, 39073659, 39096235,
       39118825, 39141427, 39164043, 39186671, 39209313, 39231968, 39254636, 39277316,
       39300010, 39322718, 39345438, 39368171, 39390918, 39413677, 39436450, 39459236,
       39482035, 39504848, 39527673, 39550512, 39573364, 39596229, 39619107, 39641999,
       39664903, 39687821, 39710752, 39733697, 39756655, 39779626, 39802610, 39825607,
       39848618, 39871642, 39894680, 39917730, 39940795, 39963872, 39986963, 40010067,
       40033184, 40056315, 40079459, 40102616, 40125787, 40148972, 40172169, 40195380,
       40218605, 40241843, 40265094, 40288359, 40311637, 40334928, 40358234, 40381552,
       40404884, 40428230, 40451589, 40474961, 40498347, 40521747, 40545160, 40568586,
       40592026, 40615480, 40638947, 40662428, 40685922, 40709430, 40732952, 40756487,
       40780036, 40803598, 40827174, 40850763, 40874366, 40897983, 40921614, 40945258,
       40968915, 40992587, 41016272, 41039971, 41063683, 41087409, 41111149, 41134903,
       41158670, 41182451, 41206246, 41230054, 41253877, 41277713, 41301563, 41325426,
       41349304, 41373195, 41397100, 41421019, 41444951, 41468898, 41492858, 41516832,
       41540820, 41564822, 41588838, 41612867, 41636911, 41660968, 41685039, 41709125,
       41733224, 41757337, 41781464, 41805605, 41829759, 41853928, 41878111, 41902308,
       41926518, 41950743, 41974982, 41999234, 42023501, 42047782, 42072077, 42096386,
       42120708, 42145045, 42169396, 42193761, 42218140, 42242534, 42266941, 42291362,
       42315798, 42340247, 42364711, 42389189, 42413681, 42438187, 42462708, 42487242,
       42511791, 42536354, 42560931, 42585522, 42610127, 42634747, 42659381, 42684029,
       42708692, 42733368, 42758059, 42782764, 42807484, 42832217, 42856965, 42881728,
       42906504, 42931295, 42956100, 42980920, 43005754, 43030602, 43055465, 43080342,
       43105233, 43130139, 43155059, 43179994, 43204943, 43229906, 43254884, 43279876,
       43304883, 43329904, 43354939, 43379989, 43405054, 43430133, 43455226, 43480334,
       43505457, 43530594, 43555745, 43580911, 43606092, 43631287, 43656497, 43681721,
       43706960, 43732213, 43757481, 43782764, 43808061, 43833373, 43858699, 43884041,
       43909396, 43934767, 43960152, 43985551, 44010966, 44036395, 44061839, 44087297,
       44112770, 44138258, 44163761, 44189278, 44214810, 44240357, 44265919, 44291495,
       44317086, 44342692, 44368313, 44393949, 44419599, 44445264, 44470944, 44496639,
       44522349, 44548073, 44573813, 44599567, 44625336, 44651120, 44676919, 44702733,
       44728562, 44754405, 44780264, 44806138, 44832026, 44857930, 44883848, 44909781,
       44935730, 44961693, 44987672, 45013665, 45039673, 45065697, 45091735, 45117789,
       45143857, 45169941, 45196040, 45222154, 45248283, 45274427, 45300586, 45326760,
       45352949, 45379154, 45405373, 45431608, 45457858, 45484123, 45510403, 45536699,
       45563009, 45589335, 45615676, 45642032, 45668404, 45694791, 45721193, 45747610,
       45774042, 45800490, 45826953, 45853431, 45879925, 45906434, 45932958, 45959498,
       45986053, 46012623, 46039209, 46065810, 46092426, 46119058, 46145705, 46172367,
       46199045, 46225738, 46252447, 46279171, 46305911, 46332666, 46359437, 46386223,
       46413024, 46439841, 46466673, 46493521, 46520385, 46547264, 46574158, 46601068,
       46627994, 46654935, 46681892, 46708864, 46735852, 46762856, 46789875, 46816909,
       46843960, 46871026, 46898107, 46925205, 46952317, 46979446, 47006590, 47033750,
       47060926, 47088117, 47115324, 47142547, 47169785, 47197039, 47224309, 47251595,
       47278897, 47306214, 47333547, 47360896, 47388260, 47415641, 47443037, 47470449,
       47497877, 47525321, 47552781, 47580256, 47607747, 47635255, 47662778, 47690317,
       47717872, 47745443, 47773030, 47800632, 47828251, 47855886, 47883536, 47911203,
       47938885, 47966584, 47994299, 48022029, 48049776, 48077539, 48105317, 48133112,
       48160923, 48188750, 48216593, 48244452, 48272327, 48300218, 48328125, 48356049,
       48383988, 48411944, 48439916, 48467904, 48495908, 48523929, 48551966, 48580018,
       48608087, 48636173, 48664274, 48692392, 48720526, 48748676, 48776842, 48805025,
       48833224, 48861440, 48889671, 48917919, 48946183, 48974464, 49002761, 49031074,
       49059404, 49087750, 49116112, 49144491, 49172886, 49201298, 49229726, 49258170,
       49286631, 49315108, 49343602, 49372112, 49400639, 49429182, 49457742, 49486318,
       49514911, 49543520, 49572146, 49600788, 49629447, 49658122, 49686814, 49715522,
       49744248, 49772989, 49801748, 49830522, 49859314, 49888122, 49916947, 49945789,
       49974647, 50003522, 50032413, 50061321, 50090246, 50119188, 50148146, 50177121,
       50206113, 50235122, 50264147, 50293189, 50322248, 50351324, 50380416, 50409525,
       50438651, 50467794, 50496954, 50526131, 50555324, 50584534, 50613762, 50643006,
       50672267, 50701545, 50730840, 50760151, 50789480, 50818826, 50848188, 50877568,
       50906964, 50936378, 50965808, 50995256, 51024720, 51054202, 51083700, 51113216,
       51142749, 51172298, 51201865, 51231449, 51261050, 51290668, 51320303, 51349956,
       51379625, 51409312, 51439016, 51468737, 51498475, 51528230, 51558002, 51587792,
       51617599, 51647423, 51677264, 51707123, 51736999, 51766892, 51796802, 51826730,
       51856675, 51886637, 51916617, 51946614, 51976628, 52006659, 52036708, 52066774,
       52096858, 52126959, 52157078, 52187213, 52217367, 52247537, 52277725, 52307931,
       52338154, 52368394, 52398652, 52428928, 52459220, 52489531, 52519859, 52550204,
       52580567, 52610948, 52641346, 52671761, 52702194, 52732645, 52763114, 52793600,
       52824103, 52854624, 52885163, 52915720, 52946294, 52976886, 53007495, 53038122,
       53068767, 53099430, 53130110, 53160808, 53191524, 53222257, 53253009, 53283778,
       53314564, 53345369, 53376191, 53407032, 53437890, 53468766, 53499659, 53530571,
       53561500, 53592447, 53623413, 53654396, 53685397, 53716415, 53747452, 53778507,
       53809580, 53840670, 53871779, 53902905, 53934050, 53965212, 53996393, 54027591,
       54058808, 54090043, 54121295, 54152566, 54183855, 54215162, 54246487, 54277830,
       54309191, 54340570, 54371968, 54403383, 54434817, 54466269, 54497739, 54529227,
       54560733, 54592258, 54623801, 54655362, 54686941, 54718539, 54750155, 54781789,
       54813441, 54845112, 54876800, 54908508, 54940233, 54971977, 55003739, 55035520,
       55067319, 55099136, 55130972, 55162826, 55194699, 55226589, 55258499, 55290427,
       55322373, 55354338, 55386321, 55418322, 55450342, 55482381, 55514438, 55546514,
       55578608, 55610721, 55642852, 55675002, 55707170, 55739357, 55771563, 55803787,
       55836030, 55868292, 55900572, 55932870, 55965188, 55997524, 56029879, 56062252,
       56094644, 56127055, 56159485, 56191933, 56224400, 56256886, 56289391, 56321914,
       56354457, 56387018, 56419597, 56452196, 56484813, 56517450, 56550105, 56582779,
       56615472, 56648184, 56680915, 56713664, 56746433, 56779220, 56812027, 56844852,
       56877696, 56910560, 56943442, 56976343, 57009264, 57042203, 57075161, 57108139,
       57141135, 57174151, 57207186, 57240239, 57273312, 57306404, 57339515, 57372645,
       57405795, 57438963, 57472151, 57505357, 57538583, 57571829, 57605093, 57638377
    >>

LogBits == 16

RECURSIVE Pow2(_)
Pow2(k) == IF k = 0 THEN 1 ELSE 2 * Pow2(k - 1)

\* p/q > 0 brought into the octave [440, 880): <<p', q', octaves moved>>.
RECURSIVE ToOctave(_, _, _)
ToOctave(p, q, k) ==
    IF p < 440 * q THEN ToOctave(2 * p, q, k - 1)
    ELSE IF p >= 880 * q THEN ToOctave(p, 2 * q, k + 1)
    ELSE <<p, q, k>>

\* Binary long division: <<floor(r * 2^bits / q), remainder>> for 0 <= r < q.
RECURSIVE FracBits(_, _, _)
FracBits(r, q, bits) ==
    IF bits = 0 THEN <<0, r>>
    ELSE LET bit == IF 2 * r >= q THEN 1 ELSE 0
             rest == FracBits(2 * r - bit * q, q, bits - 1)
         IN  <<bit * Pow2(bits - 1) + rest[1], rest[2]>>

\* The largest j in lo..hi with 440 * 2^(j/1200) * 2^LogBits <= x, where x
\* is fixed (+ a fraction when ~ whole); LogTable[lo+1] <= x is given.
RECURSIVE TableFloor(_, _, _)
TableFloor(fixed, lo, hi) ==
    IF lo = hi THEN lo
    ELSE LET mid == (lo + hi + 1) \div 2
         IN  IF LogTable[mid + 1] < fixed
             THEN TableFloor(fixed, mid, hi)
             ELSE TableFloor(fixed, lo, mid - 1)

\* 1200 * log2((p/q) / 440) for p/q > 0, as <<floor, exact>>.
LogCentsHz(p, q) ==
    LET oct == ToOctave(p, q, 0)
        whole == oct[1] \div oct[2]
        frac == FracBits(oct[1] % oct[2], oct[2], LogBits)
        fixed == whole * Pow2(LogBits) + frac[1]
        j == TableFloor(fixed, 0, 1199)
    IN  <<1200 * oct[3] + j, j = 0 /\ fixed = LogTable[1] /\ frac[2] = 0>>

\* The table decides the logarithm of p/q: its fixed-point image does not
\* coincide with a table entry whose true value is irrational.
LogDecided(p, q) ==
    LET oct == ToOctave(p, q, 0)
        whole == oct[1] \div oct[2]
        frac == FracBits(oct[1] % oct[2], oct[2], LogBits)
        fixed == whole * Pow2(LogBits) + frac[1]
    IN  \A j \in 1..1199 : LogTable[j + 1] # fixed

\* 1200 * log2(freq / 440) of a frequency record.
LogCents(freq) ==
    LET l == LogCentsHz(freq.num, freq.den)
    IN  <<l[1] + freq.cents, l[2]>>

\* a <= b and a >= b on logarithms <<floor, exact>>
LogLeq(a, b) == a[1] < b[1] \/ (a[1] = b[1] /\ a[2])
LogGeq(a, b) == a[1] > b[1] \/ (a[1] = b[1] /\ b[2])

(***************************************************************************)
(* Frequencies (tuner.js 110-126, 201-206).                                *)
(***************************************************************************)
\* 440 * 2^(c/1200) Hz: the frequency c cents above A4.
Tone(c) == [num |-> 440, den |-> 1, cents |-> c]

MIN_FREQUENCY == Hz(55, 2)
MAX_FREQUENCY == Hz(4186, 1)
MAX_DETUNE_CENTS == 50
\* The piano's MIDI range taken one note too low at either end.
MidiBelowA0 == 21 - 1
MidiBelowC8 == 108 - 1

MIN_MIDI_PIANO == 21
MAX_MIDI_PIANO == 108

\* f >= g and f <= g
FreqGeq(f, g) ==
    IF f.cents = g.cents
    THEN RatLeq(<<g.num, g.den>>, <<f.num, f.den>>)
    ELSE LogGeq(LogCents(f), LogCents(g))

FreqLeq(f, g) ==
    IF f.cents = g.cents
    THEN RatLeq(<<f.num, f.den>>, <<g.num, g.den>>)
    ELSE LogLeq(LogCents(f), LogCents(g))

\* The condition of handleAudioProcess's outer if.
PassesRangeFilter(freq) ==
    /\ freq.num > 0
    /\ IsFinite(freq)
    /\ FreqGeq(freq, MIN_FREQUENCY)
    /\ FreqLeq(freq, MAX_FREQUENCY)

(***************************************************************************)
(* getNoteInfo, midiNoteToName, updateNeedle (tuner.js 332-376).           *)
(***************************************************************************)
\* JavaScript's % takes the sign of the dividend.
JsRem(a, b) == IF a >= 0 THEN a % b ELSE -((-a) % b)

midiNoteToName(midi) ==
    LET noteNames == <<"C", "C#", "D", "D#", "E", "F",
                       "F#", "G", "G#", "A", "A#", "B">>
        r == JsRem(midi, 12)
        note == IF r < 0 THEN "undefined" ELSE noteNames[r + 1]
        octave == (midi \div 12) - 1
    IN  [note |-> note, octave |-> octave]

\* Rounding of a value given in hundredths as <<floor, exact>> with a half
\* rounded down: ceil(x - 0.5).
RoundHalfDown(l) ==
    IF l[2] THEN (l[1] + 49) \div 100 ELSE (l[1] + 50) \div 100

\* Math.round of a value given in hundredths as <<floor, exact>>:
\* floor(x + 0.5).
RoundHundredths(l) == (l[1] + 50) \div 100

\* 100 * noteNumber, noteNumber = 12 * (Math.log(freq / A4) / Math.log(2)) + 69
NoteNumber(freq) ==
    LET l == LogCents(freq) IN <<l[1] + 6900, l[2]>>

\* nearestNote = Math.round(noteNumber)
NearestNote(freq) == RoundHundredths(NoteNumber(freq))

\* keyNumber: <<>> is null, <<k>> is the key k.
getNoteInfo(freq) ==
    LET A4 == 440
        nearestNote == NearestNote(freq)
        targetFreq == [num |-> A4, den |-> 1, cents |-> 100 * (nearestNote - 69)]
        \* cents = 1200 * log2(freq / targetFreq)
        l == LogCents(freq)
        cents == <<l[1] - targetFreq.cents, l[2]>>
        keyNumber == IF nearestNote >= MIN_MIDI_PIANO /\ nearestNote <= MAX_MIDI_PIANO
                     THEN <<nearestNote - (MIN_MIDI_PIANO - 1)>>
                     ELSE <<>>
    IN  [noteName |-> midiNoteToName(nearestNote), targetFreq |-> targetFreq,
         cents |-> cents, keyNumber |-> keyNumber]

\* updateNeedle: the shift in percent, to the cent resolution of cents;
\* shift = (clamped / MAX_DETUNE_CENTS) * maxShiftPercent, as <<n, d>> of
\* the floor of cents.
updateNeedle(cents) ==
    LET c == cents[1]
        clamped == IF c < -MAX_DETUNE_CENTS THEN -MAX_DETUNE_CENTS
                   ELSE IF c >= MAX_DETUNE_CENTS THEN MAX_DETUNE_CENTS
                   ELSE c
        maxShiftPercent == 20
    IN  Rat(clamped * maxShiftPercent, MAX_DETUNE_CENTS)

(***************************************************************************)
(* Inputs.                                                                 *)
(***************************************************************************)
\* Triangle wave of the given period, phase and amplitude (in quanta).
Triangle(period, phase, amp, i) ==
    LET p == (i + phase) % period
    IN  (amp * (period - 2 * Abs(2 * p - period))) \div period

ToneBlock(period, phase, amp, len) ==
    [i \in 1..len |-> Triangle(period, phase, amp, i - 1)]

ToneBlocks(maxPeriod, maxAmp, len) ==
    {ToneBlock(period, phase, amp, len) :
        period \in 2..maxPeriod, phase \in 0..(maxPeriod - 1), amp \in 0..maxAmp}

ShortBlocks(maxLen) == UNION {[1..n -> Levels] : n \in 0..maxLen}

\* AudioContext.sampleRate of the device.
SampleRates == {8000, 44100}

\* Blocks the ScriptProcessor delivers (scaled-down bufferSize AudioLen).
AudioLen == 8
AudioMaxPeriod == 4
AudioMaxAmp == 2
AudioBlocks ==
    {ToneBlock(period, 0, amp, AudioLen) :
        period \in 2..AudioMaxPeriod, amp \in 0..AudioMaxAmp}

\* Values the slider may report (0 stands for a value Number() maps to 0
\* or NaN).
SliderValues == {0, 1, 60, 100}
AllSliderValues == 0..100

(***************************************************************************)
(* State.                                                                  *)
(***************************************************************************)
VARIABLES
    sensitivityValue,   \* let sensitivityValue
    sensitivityLabel,   \* sensitivityLabel.textContent
    running,            \* let running
    audioContext,       \* let audioContext: 0 is null, else the context's id
    scriptNode,         \* let scriptNode: 0 is null, else the node's id
    contexts,           \* AudioContexts created: sequence of "suspended"/"running"
    nodes,              \* ScriptProcessors with onaudioprocess set: their contexts
    calls,              \* startTuner invocations: [pc, ctx] each
    hasMediaDevices,    \* navigator.mediaDevices.getUserMedia exists
    sampleRate,         \* the device's AudioContext.sampleRate
    display,            \* the text and style the page shows
    startButton,        \* startButton.textContent / .disabled
    last,               \* the locals of the latest handleAudioProcess call
    fnIn,               \* argument of a direct call of a core function
    fnOut               \* its result

progVars == <<sensitivityValue, sensitivityLabel, running, audioContext,
              scriptNode, contexts, nodes, calls, hasMediaDevices, sampleRate,
              display, startButton, last>>
vars == <<sensitivityValue, sensitivityLabel, running, audioContext,
          scriptNode, contexts, nodes, calls, hasMediaDevices, sampleRate,
          display, startButton, last, fnIn, fnOut>>

Dash == [note |-> "--", octave |-> 0]
ZeroCents == <<0, TRUE>>

\* index.html is not among the sources; the page is taken to start with the
\* placeholders the handlers write.  No handler reads these fields.
InitialDisplay ==
    [noteName |-> Dash, frequency |-> 0, cents |-> ZeroCents, pianoKey |-> <<>>,
     needle |-> <<0, 1>>, status |-> "", level |-> [nan |-> FALSE, milli |-> 0]]

NoBlock ==
    [called |-> FALSE, inputData |-> <<>>, sensitivity |-> 0,
     rms |-> computeRMS(<<0>>), rmsThreshold |-> <<0, 1>>, analysed |-> FALSE,
     freq |-> NoPitch]

FnIdle ==
    [kind |-> "none", block |-> <<>>, sampleRate |-> 0, sensitivity |-> 0,
     freq |-> NoPitch]
FnNone ==
    [done |-> FALSE, rms |-> computeRMS(<<0>>), rmsThreshold |-> <<0, 1>>,
     pass |-> FALSE, yinBuffer |-> <<>>, tauEstimate |-> -1, pitch |-> NoPitch,
     info |-> getNoteInfo(Tone(0)), nearestNote |-> 0, inRange |-> FALSE,
     page |-> InitialDisplay]

\* The page once tuner.js has loaded: the slider's initial value is read
\* (line 82); nothing has been clicked.
Loaded(sliderValues) ==
    /\ sensitivityValue \in {SliderToSensitivity(v) : v \in sliderValues}
    /\ sensitivityLabel = SensitivityLabelOf(sensitivityValue)
    /\ running = FALSE
    /\ audioContext = 0
    /\ scriptNode = 0
    /\ contexts = <<>>
    /\ nodes = <<>>
    /\ calls = [c \in 1..MaxCalls |-> [pc |-> "idle", ctx |-> 0]]
    /\ hasMediaDevices \in BOOLEAN
    /\ sampleRate \in SampleRates
    /\ display = InitialDisplay
    /\ startButton = [text |-> "", disabled |-> FALSE]
    /\ last = NoBlock

Init ==
    /\ Loaded(SliderValues)
    /\ fnIn = FnIdle
    /\ fnOut = FnNone

\* let threshold = getRmsThreshold(), reading the global sensitivityValue
getRmsThreshold == RmsThresholdOf(sensitivityValue)

(***************************************************************************)
(* Sensitivity slider "input" listener (tuner.js 85-88).                   *)
(***************************************************************************)
SliderInput(value) ==
    /\ sensitivityValue' = SliderToSensitivity(value)
    /\ sensitivityLabel' = SensitivityLabelOf(sensitivityValue')
    /\ UNCHANGED <<running, audioContext, scriptNode, contexts, nodes, calls,
                   hasMediaDevices, sampleRate, display, startButton, last,
                   fnIn, fnOut>>

(***************************************************************************)
(* startTuner (tuner.js 130-179): one action per stretch between awaits.   *)
(***************************************************************************)
StatusUnsupported == "This browser doesn't support microphone access."
StatusListening == "Listening... play a single note on your piano."
StatusNoMicrophone ==
    "Could not access microphone. Check permissions and that you're using HTTPS."
StatusDetected == "Piano note detected. Try to bring the needle to 0 cents."
StatusNotPiano == "Sound detected, but not within the 88-key piano range."
StatusBelow ==
    "Input is below sensitivity. Move device closer, play louder, or increase sensitivity."
StatusNoPitch == "Listening... play a clear, single piano note and let it ring."

\* The click listener: from the entry of startTuner to its first await.  A
\* disabled button dispatches no click.
StartClick ==
    /\ ~startButton.disabled
    /\ \E c \in 1..MaxCalls :
        /\ calls[c].pc = "idle"
        /\ \A b \in 1..(c - 1) : calls[b].pc # "idle"
        /\ IF running
           THEN /\ calls' = [calls EXCEPT ![c].pc = "done"]
                /\ UNCHANGED display
           ELSE IF ~hasMediaDevices
           THEN /\ calls' = [calls EXCEPT ![c].pc = "done"]
                /\ display' = [display EXCEPT !.status = StatusUnsupported]
           ELSE /\ calls' = [calls EXCEPT ![c].pc = "getUserMedia"]
                /\ UNCHANGED display
    /\ UNCHANGED <<sensitivityValue, sensitivityLabel, running, audioContext,
                   scriptNode, contexts, nodes, hasMediaDevices, sampleRate,
                   startButton, last, fnIn, fnOut>>

\* Lines 153-173: the pipeline is built on the global audioContext.
FinishStart(c, ctxs) ==
    /\ scriptNode' = Len(nodes) + 1
    /\ nodes' = Append(nodes, audioContext')
    /\ running' = TRUE
    /\ startButton' = [text |-> "Microphone Running", disabled |-> TRUE]
    /\ display' = [display EXCEPT !.status = StatusListening]
    /\ contexts' = ctxs
    /\ calls' = [calls EXCEPT ![c] = [pc |-> "done", ctx |-> calls[c].ctx]]

\* getUserMedia resolves: the AudioContext is created (line 147) in the
\* state the browser gives it; a suspended one is resumed with an await.
GetUserMediaResolved(c, state) ==
    /\ calls[c].pc = "getUserMedia"
    /\ audioContext' = Len(contexts) + 1
    /\ IF state = "suspended"
       THEN /\ contexts' = Append(contexts, "suspended")
            /\ calls' = [calls EXCEPT ![c] = [pc |-> "resume", ctx |-> audioContext']]
            /\ UNCHANGED <<scriptNode, nodes, running, startButton, display>>
       ELSE FinishStart(c, Append(contexts, "running"))
    /\ UNCHANGED <<sensitivityValue, sensitivityLabel, hasMediaDevices,
                   sampleRate, last, fnIn, fnOut>>

\* getUserMedia rejects: the catch block.
GetUserMediaRejected(c) ==
    /\ calls[c].pc = "getUserMedia"
    /\ calls' = [calls EXCEPT ![c].pc = "done"]
    /\ display' = [display EXCEPT !.status = StatusNoMicrophone]
    /\ UNCHANGED <<sensitivityValue, sensitivityLabel, running, audioContext,
                   scriptNode, contexts, nodes, hasMediaDevices, sampleRate,
                   startButton, last, fnIn, fnOut>>

\* audioContext.resume() resolves: the context this call resumed runs.
ResumeResolved(c) ==
    /\ calls[c].pc = "resume"
    /\ UNCHANGED audioContext
    /\ FinishStart(c, [contexts EXCEPT ![calls[c].ctx] = "running"])
    /\ UNCHANGED <<sensitivityValue, sensitivityLabel, hasMediaDevices,
                   sampleRate, last, fnIn, fnOut>>

\* audioContext.resume() rejects: the catch block.
ResumeRejected(c) ==
    /\ calls[c].pc = "resume"
    /\ calls' = [calls EXCEPT ![c].pc = "done"]
    /\ display' = [display EXCEPT !.status = StatusNoMicrophone]
    /\ UNCHANGED <<sensitivityValue, sensitivityLabel, running, audioContext,
                   scriptNode, contexts, nodes, hasMediaDevices, sampleRate,
                   startButton, last, fnIn, fnOut>>

(***************************************************************************)
(* handleAudioProcess (tuner.js 181-256).  The output buffers it zeroes    *)
(* belong to the event and are not part of the state.                      *)
(***************************************************************************)
\* freq.toFixed(1), in tenths
FreqToFixed1(freq) == RatToFixed(<<freq.num, freq.den>>, 1)

\* The locals of a call (lines 184-199): rms, rmsThreshold, whether
\* yinPitch ran, freq; with the sensitivity value read by getRmsThreshold.
BlockLocals(inputData, rate, sensitivity) ==
    LET rms == computeRMS(inputData)
        rmsThreshold == RmsThresholdOf(sensitivity)
        analysed == RmsGreater(rms, rmsThreshold)
    IN  [called |-> TRUE, inputData |-> inputData, sensitivity |-> sensitivity,
         rms |-> rms, rmsThreshold |-> rmsThreshold, analysed |-> analysed,
         freq |-> IF analysed THEN yinPitch(inputData, rate) ELSE NoPitch]

\* The handler with the resets of lines 233-237 left out: a block without
\* a note changes the level and the status only.
ShowBlockKeepNote(page, l) ==
    LET withLevel == [page EXCEPT !.level = RmsToFixed3(l.rms)]
    IN  IF PassesRangeFilter(l.freq)
        THEN LET info == getNoteInfo(l.freq)
             IN  IF info.keyNumber # <<>>
                 THEN [withLevel EXCEPT !.noteName = info.noteName,
                                        !.frequency = FreqToFixed1(l.freq),
                                        !.cents = info.cents,
                                        !.pianoKey = info.keyNumber,
                                        !.needle = updateNeedle(info.cents),
                                        !.status = StatusDetected]
                 ELSE [withLevel EXCEPT !.noteName = Dash,
                                        !.frequency = 0,
                                        !.cents = ZeroCents,
                                        !.pianoKey = <<>>,
                                        !.needle = updateNeedle(ZeroCents),
                                        !.status = StatusNotPiano]
        ELSE [withLevel EXCEPT !.status = IF RmsLess(l.rms, l.rmsThreshold)
                                          THEN StatusBelow
                                          ELSE StatusNoPitch]

\* Lines 189-248: the page after a call with the locals l.
ShowBlock(page, l) ==
    LET withLevel == [page EXCEPT !.level = RmsToFixed3(l.rms)]
    IN  IF PassesRangeFilter(l.freq)
        THEN LET info == getNoteInfo(l.freq)
             IN  IF info.keyNumber # <<>>
                 THEN [withLevel EXCEPT !.noteName = info.noteName,
                                        !.frequency = FreqToFixed1(l.freq),
                                        !.cents = info.cents,
                                        !.pianoKey = info.keyNumber,
                                        !.needle = updateNeedle(info.cents),
                                        !.status = StatusDetected]
                 ELSE [withLevel EXCEPT !.noteName = Dash,
                                        !.frequency = 0,
                                        !.cents = ZeroCents,
                                        !.pianoKey = <<>>,
                                        !.needle = updateNeedle(ZeroCents),
                                        !.status = StatusNotPiano]
        ELSE [withLevel EXCEPT !.noteName = Dash,
                               !.frequency = 0,
                               !.cents = ZeroCents,
                               !.pianoKey = <<>>,
                               !.needle = updateNeedle(ZeroCents),
                               !.status = IF RmsLess(l.rms, l.rmsThreshold)
                                          THEN StatusBelow
                                          ELSE StatusNoPitch]

\* A ScriptProcessor of a running context delivers the block inputData.
handleAudioProcess(inputData) ==
    /\ \E node \in 1..Len(nodes) : contexts[nodes[node]] = "running"
    /\ IF audioContext = 0
       THEN UNCHANGED <<display, last>>
       ELSE /\ last' = BlockLocals(inputData, sampleRate, sensitivityValue)
            /\ display' = ShowBlock(display, last')
    /\ UNCHANGED <<sensitivityValue, sensitivityLabel, running, audioContext,
                   scriptNode, contexts, nodes, calls, hasMediaDevices,
                   sampleRate, startButton, fnIn, fnOut>>

Next ==
    \/ \E value \in SliderValues : SliderInput(value)
    \/ StartClick
    \/ \E c \in 1..MaxCalls, state \in {"suspended", "running"} :
            GetUserMediaResolved(c, state)
    \/ \E c \in 1..MaxCalls : GetUserMediaRejected(c)
    \/ \E c \in 1..MaxCalls : ResumeResolved(c)
    \/ \E c \in 1..MaxCalls : ResumeRejected(c)
    \/ \E inputData \in AudioBlocks : handleAudioProcess(inputData)

Spec == Init /\ [][Next]_vars

(***************************************************************************)
(* The slider alone, over its whole range.                                 *)
(***************************************************************************)
InitSlider ==
    /\ Loaded(AllSliderValues)
    /\ fnIn = FnIdle
    /\ fnOut = FnNone

NextSlider == \E value \in AllSliderValues : SliderInput(value)

SpecSlider == InitSlider /\ [][NextSlider]_vars

(***************************************************************************)
(* The core functions called directly, each on an argument drawn in the    *)
(* initial state.                                                          *)
(***************************************************************************)
\* yinPitch: every short block, every tone block; the device rates and 0.
YinBlocks == ShortBlocks(MaxShortLen) \cup ToneBlocks(MaxPeriod, MaxToneAmp, ToneLen)
YinSampleRates == SampleRates \cup {0}
YinInputs ==
    {[kind |-> "yin", block |-> b, sampleRate |-> r, sensitivity |-> 0,
      freq |-> NoPitch] : b \in YinBlocks, r \in YinSampleRates}

\* The gate: every block of at most MaxGateLen samples, every sensitivity.
MaxGateLen == 3
GateInputs ==
    {[kind |-> "gate", block |-> b, sampleRate |-> 0, sensitivity |-> s,
      freq |-> NoPitch] : b \in ShortBlocks(MaxGateLen), s \in 1..100}

\* getNoteInfo: the equal-tempered grid in steps of GridStep cents from
\* GridLow to GridHigh steps around A4, every half Hz from 20 Hz to
\* MaxHalfHz / 2, and the frequencies the specification names.
GridStep == 10
GridLow == 520
GridHigh == 680
MaxHalfHz == 8400
NoteFreqs ==
    {Tone(GridStep * k) : k \in (-GridLow)..GridHigh}
    \cup {Hz(n, 2) : n \in 40..MaxHalfHz}
    \cup {Hz(26163, 100), Hz(20000, 1), Hz(418601, 100)}
NoteInputs ==
    {[kind |-> "note", block |-> <<>>, sampleRate |-> 0, sensitivity |-> 0,
      freq |-> f] : f \in NoteFreqs}

InitFn(inputs) ==
    /\ Loaded({70})
    /\ hasMediaDevices = TRUE
    /\ sampleRate = 44100
    /\ fnIn \in inputs
    /\ fnOut = FnNone

\* freq = yinPitch(block, sampleRate), with its locals
CallYin ==
    /\ fnIn.kind = "yin"
    /\ ~fnOut.done
    /\ LET tauMax == TauMax(fnIn.block)
           yinBuffer == YinBuffer(fnIn.block)
           tauEstimate == TauEstimate(yinBuffer, tauMax)
       IN  fnOut' = [fnOut EXCEPT
                        !.done = TRUE,
                        !.yinBuffer = yinBuffer,
                        !.tauEstimate = tauEstimate,
                        !.pitch = yinPitch(fnIn.block, fnIn.sampleRate)]
    /\ UNCHANGED <<progVars, fnIn>>

\* rms = computeRMS(block); rms > threshold at the given sensitivity
CallGate ==
    /\ fnIn.kind = "gate"
    /\ ~fnOut.done
    /\ LET rms == computeRMS(fnIn.block)
           rmsThreshold == RmsThresholdOf(fnIn.sensitivity)
       IN  fnOut' = [fnOut EXCEPT
                        !.done = TRUE,
                        !.rms = rms,
                        !.rmsThreshold = rmsThreshold,
                        !.pass = RmsGreater(rms, rmsThreshold)]
    /\ UNCHANGED <<progVars, fnIn>>

\* info = getNoteInfo(freq), with nearestNote, the caller's range filter on
\* freq, and the page lines 201-248 leave when yinPitch returned freq.
CallNote ==
    /\ fnIn.kind = "note"
    /\ ~fnOut.done
    /\ fnOut' = [fnOut EXCEPT
                    !.done = TRUE,
                    !.info = getNoteInfo(fnIn.freq),
                    !.nearestNote = NearestNote(fnIn.freq),
                    !.inRange = PassesRangeFilter(fnIn.freq),
                    !.page = ShowBlock(InitialDisplay,
                                       [NoBlock EXCEPT
                                            !.called = TRUE,
                                            !.rms = computeRMS(<<1>>),
                                            !.rmsThreshold = RmsThresholdOf(70),
                                            !.analysed = TRUE,
                                            !.freq = fnIn.freq])]
    /\ UNCHANGED <<progVars, fnIn>>

SpecYin == InitFn(YinInputs) /\ [][CallYin]_vars
SpecGate == InitFn(GateInputs) /\ [][CallGate]_vars
SpecNote == InitFn(NoteInputs) /\ [][CallNote]_vars

(***************************************************************************)
(* Properties of getNoteInfo and of the range filter (SpecNote).           *)
(***************************************************************************)
\* C4, as stated: for every frequency passed to getNoteInfo the returned
\* cents lie in (-50, +50], never -50 or below.
C4_CentsAsStated ==
    (fnIn.kind = "note" /\ fnOut.done) =>
        LET c == fnOut.info.cents
        IN  /\ c[1] > -50 \/ (c[1] = -50 /\ ~c[2])
            /\ c[1] < 50 \/ (c[1] = 50 /\ c[2])

\* C4, amended: for every frequency passed to getNoteInfo the returned
\* cents lie in [-50, +50); a frequency exactly halfway between two notes is
\* given the higher note (Math.round rounds a half up), so its cents are
\* exactly -50, and +50 is never returned.
C4_Cents ==
    (fnIn.kind = "note" /\ fnOut.done) =>
        LET c == fnOut.info.cents
            n == NoteNumber(fnIn.freq)
        IN  /\ c[1] >= -50
            /\ c[1] < 50
            /\ (n[2] /\ n[1] % 100 = 50) =>
                    /\ 100 * fnOut.nearestNote = n[1] + 50
                    /\ c = <<-50, TRUE>>

\* A frequency exactly halfway between two notes has been mapped.
C4_Witness ==
    /\ fnIn.kind = "note"
    /\ fnOut.done
    /\ NoteNumber(fnIn.freq)[2]
    /\ NoteNumber(fnIn.freq)[1] % 100 = 50
    /\ fnOut.info.cents = <<-50, TRUE>>

\* C5: getNoteInfo returns a key number iff the nearest MIDI note n is in
\* 21..108, the key then being n - 20 in 1..88 (69 gives 49, 60 gives 40);
\* otherwise, as for 20000 Hz, the key number is null.
C5_KeyNumber ==
    (fnIn.kind = "note" /\ fnOut.done) =>
        LET n == fnOut.nearestNote
            key == fnOut.info.keyNumber
        IN  /\ (key # <<>>) <=> (21 <= n /\ n <= 108)
            /\ (key # <<>>) => (key = <<n - 20>> /\ n - 20 \in 1..88)
            /\ (n = 69) => (key = <<49>>)
            /\ (n = 60) => (key = <<40>>)
            /\ (fnIn.freq = Hz(20000, 1)) => (key = <<>>)

\* 440 Hz has been mapped to MIDI 69, key 49.
C5_Witness ==
    /\ fnIn.kind = "note"
    /\ fnOut.done
    /\ fnIn.freq = Hz(440, 1)
    /\ fnOut.nearestNote = 69
    /\ fnOut.info.keyNumber = <<49>>

\* C10: a frequency that passes the range filter 27.5 <= f <= 4186 has its
\* nearest MIDI note in 21..108 and a key number in 1..88, so the handler
\* never reports "Sound detected, but not within the 88-key piano range."
C10_RangeHasKey ==
    (fnIn.kind = "note" /\ fnOut.done) =>
        LET key == fnOut.info.keyNumber
        IN  /\ fnOut.inRange =>
                    /\ fnOut.nearestNote \in 21..108
                    /\ Len(key) = 1
                    /\ key[1] \in 1..88
            /\ fnOut.page.status # StatusNotPiano

\* The upper end of the filter, 4186 Hz, has been mapped: it is C8, key 88.
C10_Witness ==
    /\ fnIn.kind = "note"
    /\ fnOut.done
    /\ fnIn.freq = MAX_FREQUENCY
    /\ fnOut.inRange
    /\ fnOut.nearestNote = 108
    /\ fnOut.page.status = StatusDetected

(***************************************************************************)
(* Properties of yinPitch (SpecYin).                                       *)
(***************************************************************************)
\* C3: yinPitch returns -1 or a finite, strictly positive frequency; a
\* silent block (every normalized cell NaN) and every non-finite, zero or
\* negative quotient end in -1.
C3_PitchResult ==
    (fnIn.kind = "yin" /\ fnOut.done) =>
        LET d == fnOut.yinBuffer
            pitch == fnOut.pitch
        IN  /\ \/ pitch = NoPitch
               \/ IsFinite(pitch) /\ pitch.num > 0 /\ pitch.den > 0
            /\ (\A t \in DOMAIN d \ {0} : d[t].kind = "nan") => pitch = NoPitch

\* A lag was chosen and the guard on the quotient returned -1.
C3_Witness ==
    /\ fnIn.kind = "yin"
    /\ fnOut.done
    /\ fnOut.tauEstimate # -1
    /\ fnOut.pitch = NoPitch

\* C8: if some lag in [2, tauMax) is below 0.15, the lag chosen is reached
\* from the smallest such lag by advancing while the next cell is strictly
\* smaller: it is in [2, tauMax), and it is the last lag or its successor is
\* not smaller; with no lag below 0.15 the result is no pitch.  Lag 0 is
\* never chosen.
C8_ThresholdSearch ==
    (fnIn.kind = "yin" /\ fnOut.done) =>
        LET d == fnOut.yinBuffer
            tauMax == TauMax(fnIn.block)
            T == fnOut.tauEstimate
            candidates == {t \in 2..(tauMax - 1) : BelowThreshold(d[t])}
        IN  IF candidates = {}
            THEN T = -1 /\ fnOut.pitch = NoPitch
            ELSE LET first == CHOOSE t \in candidates :
                                \A u \in candidates : t <= u
                 IN  /\ 2 <= T
                     /\ T < tauMax
                     /\ first <= T
                     /\ \A t \in first..(T - 1) : CellLt(d[t + 1], d[t])
                     /\ T + 1 = tauMax \/ ~CellLt(d[T + 1], d[T])

\* The search went down from the first candidate to a later lag.
C8_Witness ==
    /\ fnIn.kind = "yin"
    /\ fnOut.done
    /\ fnOut.tauEstimate # -1
    /\ \E t \in 2..(fnOut.tauEstimate - 1) : BelowThreshold(fnOut.yinBuffer[t])

(***************************************************************************)
(* Properties of the gate (SpecGate) and of the slider (SpecSlider).       *)
(***************************************************************************)
\* C2, as stated: for an empty or all-zero block computeRMS is exactly 0 and
\* the gate does not pass at any sensitivity in 1..100.
C2_SilentAsStated ==
    (/\ fnIn.kind = "gate"
     /\ fnOut.done
     /\ \A i \in 1..Len(fnIn.block) : fnIn.block[i] = 0) =>
        /\ fnOut.rms = [kind |-> "num", sq |-> <<0, 1>>]
        /\ ~fnOut.pass

\* C7, the values: the threshold is 0.01 - (s/100) * (0.01 - 0.0005), between
\* 0.0005 (at s = 100) and 0.01.
C7_ThresholdRange ==
    /\ sensitivityValue \in 1..100
    /\ getRmsThreshold = Rat(2000 - 19 * sensitivityValue, 200000)
    /\ RatLeq(<<1, 2000>>, getRmsThreshold)
    /\ RatLeq(getRmsThreshold, <<1, 100>>)
    /\ (sensitivityValue = 100) => (getRmsThreshold = <<1, 2000>>)

\* C7: getRmsThreshold does not increase when the sensitivity is raised, and
\* stays between 0.0005 and 0.01.
C7_Threshold ==
    /\ []C7_ThresholdRange
    /\ [][sensitivityValue' > sensitivityValue =>
            RatLeq(RmsThresholdOf(sensitivityValue'),
                   RmsThresholdOf(sensitivityValue))]_vars

\* The slider is at 100 and the threshold at its minimum.
C7_Witness ==
    /\ sensitivityValue = 100
    /\ sensitivityLabel = "High"
    /\ getRmsThreshold = <<1, 2000>>

(***************************************************************************)
(* Properties of the running program (Spec).                               *)
(***************************************************************************)
\* C1: the page left by handleAudioProcess shows a note iff the latest
\* block's RMS exceeded the threshold of the sensitivity current at that
\* block, yinPitch returned a finite frequency in [27.5, 4186] Hz and
\* getNoteInfo returned a key; otherwise name and key are "--", frequency
\* and cents 0.0 and the needle centred.
C1_LatestBlockOnly ==
    last.called =>
        LET rms == computeRMS(last.inputData)
            passes == RmsGreater(rms, RmsThresholdOf(last.sensitivity))
            freq == IF passes THEN yinPitch(last.inputData, sampleRate)
                    ELSE NoPitch
            shown == /\ passes
                     /\ freq # NoPitch
                     /\ IsFinite(freq)
                     /\ FreqGeq(freq, MIN_FREQUENCY)
                     /\ FreqLeq(freq, MAX_FREQUENCY)
                     /\ getNoteInfo(freq).keyNumber # <<>>
        IN  IF shown
            THEN /\ display.noteName = getNoteInfo(freq).noteName
                 /\ display.frequency = FreqToFixed1(freq)
                 /\ display.cents = getNoteInfo(freq).cents
                 /\ display.pianoKey = getNoteInfo(freq).keyNumber
            ELSE /\ display.noteName = Dash
                 /\ display.frequency = 0
                 /\ display.cents = ZeroCents
                 /\ display.pianoKey = <<>>
                 /\ display.needle = <<0, 1>>

\* A note is on the page, left by a block that would not pass the gate at
\* the sensitivity the slider has been moved to since.
C1_Witness ==
    /\ last.called
    /\ display.status = StatusDetected
    /\ display.pianoKey # <<>>
    /\ sensitivityValue # last.sensitivity
    /\ ~RmsGreater(last.rms, getRmsThreshold)

\* C6, as stated: when the gate passes and the frequency found is outside
\* [27.5, 4186] Hz or its nearest note outside the piano's MIDI range, the
\* page shows the "not within the 88-key piano range" state.
C6_OutOfRangeAsStated ==
    (/\ last.called
     /\ last.analysed
     /\ last.freq # NoPitch
     /\ \/ ~PassesRangeFilter(last.freq)
        \/ getNoteInfo(last.freq).keyNumber = <<>>) =>
        display.status = StatusNotPiano

\* C9, as stated: at most one AudioContext is created and handleAudioProcess
\* is installed at most once.
C9_OnePipelineAsStated ==
    /\ Len(contexts) <= 1
    /\ Len(nodes) <= 1

=============================================================================
